---- MODULE Spec2Model ----
(***************************************************************************)
(* Shell Material Assigner (shell_material_assigner.py).                   *)
(*                                                                         *)
(* The host scene (objects, materials, shading groups, the mesh topology,  *)
(* the current selection) is the environment; the two UI widgets           *)
(* (objectField, materialList) are the program's persistent state; the     *)
(* locals of get_mesh_shells are kept as variables so that its loops can   *)
(* be followed one iteration at a time.                                    *)
(***************************************************************************)
EXTENDS Integers, Sequences, FiniteSets, TLC

VARIABLES
    exists,            \* names of the nodes currently in the scene
    conn,              \* material -> shading engines connected to it, in listConnections order
    member,            \* face name -> shading group the face is a member of
    sel,               \* the scene selection, in cmds.ls order
    mesh,              \* host topology: mesh[f+1] is what getConnectedFaces gives for face f
    objectField,       \* text of the "objectField" textField
    materialList,      \* items of the "materialList" textScrollList
    pc,                \* position of the running callback ("idle": none runs)
    report,            \* messages the last callback emitted, oldest first
    face_count, face_connections, visited, shells, shell, queue, i, result

scene  == <<exists, conn, member, sel, mesh>>
ui     == <<objectField, materialList>>
locals == <<face_count, face_connections, visited, shells, shell, queue, i, result>>
vars   == <<exists, conn, member, sel, mesh, objectField, materialList, pc, report,
            face_count, face_connections, visited, shells, shell, queue, i, result>>

(***************************************************************************)
(* Bounds of the model.                                                    *)
(***************************************************************************)
\* largest number of faces of a mesh
MaxFaces == 3
\* largest total number of ids the host lists over all faces of a mesh
MaxEntries == 4
\* the same bound for the runs whose termination is checked
MaxFairEntries == 3
\* longest material list and longest selection
MaxList == 2
\* the same two bounds for the meshes apply_materials_button is run on
MaxApplyFaces == 2
MaxApplyEntries == 3

(***************************************************************************)
(* The host scene.                                                         *)
(***************************************************************************)
\* the polygonal object: a transform with a mesh shape
MeshObj == "pCube1"
\* a transform without a mesh shape
GroupObj == "group1"
Materials == {"lambert2", "blinn1"}
\* the shading group every face starts in
InitialSG == "initialShadingGroup"

\* ids the host may list as connected faces; -1 is never a face id, and an id from
\* face_count on is none either
FaceIds == -1 .. MaxFaces - 1

SeqsUpTo(S, n) == UNION {[1 .. k -> S] : k \in 0 .. n}

RECURSIVE SumTo(_, _)
\* lens[1] + ... + lens[k]
SumTo(lens, k) == IF k = 0 THEN 0 ELSE SumTo(lens, k - 1) + lens[k]

\* the mesh whose face f lists lens[f+1] ids, the listed ids of all faces being flat
CutMesh(lens, flat) ==
    [f \in 1 .. Len(lens) |-> SubSeq(flat, SumTo(lens, f - 1) + 1, SumTo(lens, f))]

\* how many ids each of n faces lists, at most e in total
ListLengths(n, e) == {l \in [1 .. n -> 0 .. e] : SumTo(l, n) <= e}

\* m is a mesh of at most nmax faces that lists at most e ids in total
IsMeshWithin(m, nmax, e) ==
    \E n \in 0 .. nmax : \E lens \in ListLengths(n, e) :
        \E flat \in [1 .. SumTo(lens, n) -> FaceIds] : m = CutMesh(lens, flat)

\* "%s.f[%d]" % (obj_name, fid): the pair stands for the formatted string
FaceName(obj, fid) == <<obj, fid>>

FacesOf(m) == {FaceName(MeshObj, f) : f \in 0 .. Len(m) - 1}

Nodes == {MeshObj, GroupObj} \cup Materials

\* cmds.objExists(name)
ObjExists(name) == name \in exists

\* cmds.objectType(obj, isType='transform')
IsTransform(obj) == obj \in {MeshObj, GroupObj}

\* cmds.listRelatives(obj, shapes=True, type='mesh')
MeshShapes(obj) == IF obj = MeshObj THEN <<"pCubeShape1">> ELSE <<>>

\* mutant: only the transform test is made
IsTransformOnly(obj) == IsTransform(obj)

\* the object passes both tests of line 123
IsPolyGeometry(obj) == IsTransform(obj) /\ MeshShapes(obj) # <<>>

\* material + "SG"
SGName(material) ==
    CASE material = "lambert2" -> "lambert2SG"
      [] material = "blinn1" -> "blinn1SG"
      [] OTHER -> "materialSG"

\* a message of cmds.warning, cmds.error, print or the interpreter
Msg(level, text, arg) == <<level, text, arg>>

Last(sq) == sq[Len(sq)]

Elems(sq) == {sq[k] : k \in DOMAIN sq}

(***************************************************************************)
(* get_mesh_shells                                                         *)
(***************************************************************************)
\* face_connections.get(current, [])
GetConnections(fc, current) == IF current \in DOMAIN fc THEN fc[current] ELSE <<>>

\* mutant: only the first neighbour is considered
EnqueueFirstOnly(neighbors, seen) ==
    IF neighbors = <<>> \/ neighbors[1] \in seen THEN <<>> ELSE <<neighbors[1]>>

\* for n in neighbors: if n not in visited: queue.append(n)   (what is appended)
Enqueued(neighbors, seen) == SelectSeq(neighbors, LAMBDA n : n \notin seen)

\* mutant: the front element is read but stays in the queue
PopKeep(q) == q

\* queue.pop(0): what is left of the queue
PopRest(q) == Tail(q)

\* one iteration of the MItMeshPolygon loop
IterPoly ==
    /\ pc = "iter"
    /\ face_count < Len(mesh)
    /\ face_connections' =
         [f \in 0 .. face_count |->
            IF f = face_count THEN mesh[face_count + 1] ELSE face_connections[f]]
    /\ face_count' = face_count + 1
    /\ UNCHANGED <<scene, ui, pc, report, visited, shells, shell, queue, i, result>>

\* iter_poly.isDone(): visited = set(); shells = []; the for loop starts
IterDone ==
    /\ pc = "iter"
    /\ face_count = Len(mesh)
    /\ visited' = {}
    /\ shells' = <<>>
    /\ i' = 0
    /\ pc' = "for"
    /\ UNCHANGED <<scene, ui, report, face_count, face_connections, shell, queue, result>>

\* if i in visited: continue
ForSkip ==
    /\ pc = "for"
    /\ i < face_count
    /\ i \in visited
    /\ i' = i + 1
    /\ UNCHANGED <<scene, ui, pc, report, face_count, face_connections, visited, shells,
                   shell, queue, result>>

\* shell = []; queue = [i]
ForStart ==
    /\ pc = "for"
    /\ i < face_count
    /\ i \notin visited
    /\ shell' = <<>>
    /\ queue' = <<i>>
    /\ pc' = "while"
    /\ UNCHANGED <<scene, ui, report, face_count, face_connections, visited, shells, i,
                   result>>

\* range(face_count) is exhausted
ForDone ==
    /\ pc = "for"
    /\ i = face_count
    /\ pc' = "format"
    /\ UNCHANGED <<scene, ui, report, locals>>

\* current = queue.pop(0); if current in visited: continue
WhileSkip ==
    /\ pc = "while"
    /\ queue # <<>>
    /\ Head(queue) \in visited
    /\ queue' = PopRest(queue)
    /\ UNCHANGED <<scene, ui, pc, report, face_count, face_connections, visited, shells,
                   shell, i, result>>

\* current = queue.pop(0); visited.add; shell.append; the neighbours are enqueued
WhileVisit ==
    /\ pc = "while"
    /\ queue # <<>>
    /\ Head(queue) \notin visited
    /\ LET current == Head(queue)
       IN /\ visited' = visited \cup {current}
          /\ shell' = Append(shell, current)
          /\ queue' = PopRest(queue)
                        \o Enqueued(GetConnections(face_connections, current), visited')
    /\ UNCHANGED <<scene, ui, pc, report, face_count, face_connections, shells, i, result>>

\* the queue is empty: shells.append(shell), next i
WhileDone ==
    /\ pc = "while"
    /\ queue = <<>>
    /\ shells' = Append(shells, shell)
    /\ i' = i + 1
    /\ pc' = "for"
    /\ UNCHANGED <<scene, ui, report, face_count, face_connections, visited, shell, queue,
                   result>>

\* result.append(["%s.f[%d]" % (obj_name, fid) for fid in shell_ids])
FormatShells(obj, ss) ==
    [k \in 1 .. Len(ss) |-> [j \in 1 .. Len(ss[k]) |-> FaceName(obj, ss[k][j])]]

\* the result is formatted and returned to apply_materials_button, which prints the time
Format ==
    /\ pc = "format"
    /\ result' = FormatShells(objectField, shells)
    /\ report' = Append(report, Msg("print", "get_mesh_shells - sec", ""))
    /\ pc' = "got_shells"
    /\ UNCHANGED <<scene, ui, face_count, face_connections, visited, shells, shell, queue, i>>

NextDetect ==
    \/ IterPoly
    \/ IterDone
    \/ ForSkip
    \/ ForStart
    \/ ForDone
    \/ WhileSkip
    \/ WhileVisit
    \/ WhileDone
    \/ Format

\* get_mesh_shells has just been entered for the mesh object, on any host topology
\* that lists at most e ids
InitDetectWithin(e) ==
    /\ IsMeshWithin(mesh, MaxFaces, e)
    /\ exists = {MeshObj}
    /\ conn = [m \in Materials |-> <<>>]
    /\ member = [f \in FacesOf(mesh) |-> InitialSG]
    /\ sel = <<>>
    /\ objectField = MeshObj
    /\ materialList = <<>>
    /\ pc = "iter"
    /\ report = <<>>
    /\ face_count = 0
    /\ face_connections = <<>>
    /\ visited = {}
    /\ shells = <<>>
    /\ shell = <<>>
    /\ queue = <<>>
    /\ i = 0
    /\ result = <<>>

InitDetect == InitDetectWithin(MaxEntries)

SpecDetect == InitDetect /\ [][NextDetect]_vars

InitDetectFair == InitDetectWithin(MaxFairEntries)

\* the loops of get_mesh_shells have no suspension point: an enabled step is taken
FairSpecDetect == InitDetectFair /\ [][NextDetect]_vars /\ WF_vars(NextDetect)

(***************************************************************************)
(* assign_random_materials_from_list                                       *)
(***************************************************************************)
\* mutant: the objExists test is skipped
ResolveOneNoCheck(material, acc) ==
    IF acc.conn[material] # <<>>
    THEN [acc EXCEPT !.groups = Append(@, acc.conn[material][1])]
    ELSE [acc EXCEPT !.groups = Append(@, SGName(material)),
                     !.exists = @ \cup {SGName(material)},
                     !.conn = [@ EXCEPT ![material] = <<SGName(material)>>]]

\* the body of "for material in material_list" on acc = [groups, exists, conn, msgs]
ResolveOne(material, acc) ==
    IF material \notin acc.exists
    THEN [acc EXCEPT !.msgs = Append(@, Msg("warning", "Material does not exist", material))]
    ELSE IF acc.conn[material] # <<>>
    THEN [acc EXCEPT !.groups = Append(@, acc.conn[material][1])]
    ELSE [acc EXCEPT !.groups = Append(@, SGName(material)),
                     !.exists = @ \cup {SGName(material)},
                     !.conn = [@ EXCEPT ![material] = <<SGName(material)>>]]

RECURSIVE ResolveFrom(_, _, _)
ResolveFrom(material_list, k, acc) ==
    IF k > Len(material_list) THEN acc
    ELSE ResolveFrom(material_list, k + 1, ResolveOne(material_list[k], acc))

\* the loop that fills shading_groups, from the scene as it is
Resolved(material_list) ==
    ResolveFrom(material_list, 1, [groups |-> <<>>, exists |-> exists, conn |-> conn, msgs |-> <<>>])

\* mutant: only the first face of the shell is moved
ForceFirstElement(mem, shell_faces, sg) ==
    [f \in DOMAIN mem |-> IF f = shell_faces[1] THEN sg ELSE mem[f]]

\* cmds.sets(shell_faces, edit=True, forceElement=sg)
ForceElement(mem, shell_faces, sg) ==
    [f \in DOMAIN mem |-> IF f \in Elems(shell_faces) THEN sg ELSE mem[f]]

RECURSIVE AssignFrom(_, _, _, _, _)
\* "for shell_faces in shells" from shell k on; pick[k] is what random.choice draws.
\* A face name that matches no face of the scene makes cmds.sets raise.
AssignFrom(shell_list, groups, pick, k, mem) ==
    IF k > Len(shell_list) THEN [member |-> mem, ok |-> TRUE]
    ELSE IF ~(Elems(shell_list[k]) \subseteq DOMAIN mem) THEN [member |-> mem, ok |-> FALSE]
    ELSE AssignFrom(shell_list, groups, pick, k + 1,
                    ForceElement(mem, shell_list[k], groups[pick[k]]))

\* line 76: "if not material_list" (an empty textScrollList is queried as None)
AssignEmptyList ==
    /\ pc = "got_shells"
    /\ materialList = <<>>
    /\ report' = Append(report, Msg("error", "Material list is empty.", ""))
    /\ pc' = "idle"
    /\ UNCHANGED <<scene, ui, locals>>

\* line 94: "if not shading_groups"
AssignNoGroups ==
    /\ pc = "got_shells"
    /\ materialList # <<>>
    /\ LET r == Resolved(materialList)
       IN /\ r.groups = <<>>
          /\ exists' = r.exists
          /\ conn' = r.conn
          /\ report' = report \o r.msgs
                         \o <<Msg("error", "No available shading groups for assignment.", "")>>
    /\ pc' = "idle"
    /\ UNCHANGED <<member, sel, mesh, ui, locals>>

\* lines 97-99, then the time is printed
AssignShells ==
    /\ pc = "got_shells"
    /\ materialList # <<>>
    /\ LET r == Resolved(materialList)
       IN /\ r.groups # <<>>
          /\ exists' = r.exists
          /\ conn' = r.conn
          /\ \E pick \in [1 .. Len(result) -> 1 .. Len(r.groups)] :
                LET a == AssignFrom(result, r.groups, pick, 1, member)
                IN /\ member' = a.member
                   /\ report' = report \o r.msgs \o
                        <<IF a.ok THEN Msg("print", "assign_random_materials_from_list - sec", "")
                          ELSE Msg("error", "No object matches name", "")>>
    /\ pc' = "idle"
    /\ UNCHANGED <<sel, mesh, ui, locals>>

assign_random_materials_from_list ==
    \/ AssignEmptyList
    \/ AssignNoGroups
    \/ AssignShells

(***************************************************************************)
(* The button callbacks.                                                   *)
(***************************************************************************)
\* sel is empty: "Nothing selected."
SelectNothing ==
    /\ pc = "idle"
    /\ sel = <<>>
    /\ report' = <<Msg("warning", "Nothing selected.", "")>>
    /\ UNCHANGED <<scene, ui, pc, locals>>

\* sel is not empty: line 110 stores into selected_object[0], and the module binds the
\* name selected_object nowhere: NameError; line 111, which sets the field, is not reached
SelectStore ==
    /\ pc = "idle"
    /\ sel # <<>>
    /\ report' = <<Msg("error", "NameError: name 'selected_object' is not defined", "")>>
    /\ UNCHANGED <<scene, ui, pc, locals>>

select_object_button ==
    \/ SelectNothing
    \/ SelectStore

\* cmds.ls(selection=True, materials=True)
SelectedMaterials == SelectSeq(sel, LAMBDA n : n \in Materials)

\* mutant: every selected material is appended
AppendAll(existing, selected) == existing \o selected

\* for mat in selected: if mat not in existing: append (existing is read once, before the loop)
AppendNew(existing, selected) ==
    existing \o SelectSeq(selected, LAMBDA mat : mat \notin Elems(existing))

add_selected_materials ==
    /\ pc = "idle"
    /\ materialList' =
         IF SelectedMaterials # <<>> THEN AppendNew(materialList, SelectedMaterials)
         ELSE materialList
    /\ report' = <<>>
    /\ UNCHANGED <<scene, objectField, pc, locals>>

\* line 119: the field is empty or names no node
ApplyRejectMissing ==
    /\ pc = "idle"
    /\ objectField = "" \/ ~ObjExists(objectField)
    /\ report' = <<Msg("warning", "Object not selected or does not exist.", "")>>
    /\ UNCHANGED <<scene, ui, pc, locals>>

\* line 123: the node is no transform with a mesh shape
ApplyRejectNotPoly ==
    /\ pc = "idle"
    /\ objectField # "" /\ ObjExists(objectField)
    /\ ~IsPolyGeometry(objectField)
    /\ report' = <<Msg("warning", "Selected object is not polygonal geometry.", "")>>
    /\ UNCHANGED <<scene, ui, pc, locals>>

\* lines 127-130: get_mesh_shells(obj) is entered
ApplyAccept ==
    /\ pc = "idle"
    /\ objectField # "" /\ ObjExists(objectField)
    /\ IsPolyGeometry(objectField)
    /\ report' = <<>>
    /\ face_count' = 0
    /\ face_connections' = <<>>
    /\ visited' = {}
    /\ shells' = <<>>
    /\ shell' = <<>>
    /\ queue' = <<>>
    /\ i' = 0
    /\ result' = <<>>
    /\ pc' = "iter"
    /\ UNCHANGED <<scene, ui>>

apply_materials_button ==
    \/ ApplyRejectMissing
    \/ ApplyRejectNotPoly
    \/ ApplyAccept
    \/ NextDetect
    \/ assign_random_materials_from_list

\* show_gui() is called again while no callback runs: an open window is deleted
\* (lines 159-160) and the two widgets are created anew, empty (lines 174, 184)
show_gui ==
    /\ pc = "idle"
    /\ objectField' = ""
    /\ materialList' = <<>>
    /\ report' = <<>>
    /\ UNCHANGED <<scene, pc, locals>>

\* the user changes the scene selection while no callback runs
ChangeSelection ==
    /\ pc = "idle"
    /\ sel' \in SeqsUpTo(exists \cap Nodes, MaxList)
    /\ UNCHANGED <<exists, conn, member, mesh, ui, pc, report, locals>>

\* listed ids are face ids and adjacency is mutual
WellFormed(m) ==
    \A a \in 1 .. Len(m) : \A k \in 1 .. Len(m[a]) :
        /\ m[a][k] \in 0 .. Len(m) - 1
        /\ \E l \in 1 .. Len(m[m[a][k] + 1]) : m[m[a][k] + 1][l] = a - 1

\* no face lists itself or lists a face twice
Simple(m) ==
    \A a \in 1 .. Len(m) : \A k, l \in 1 .. Len(m[a]) :
        m[a][k] # a - 1 /\ (k # l => m[a][k] # m[a][l])

\* what listConnections may give for a material of the scene
ConnChoices(m) == {<<>>, <<SGName(m), InitialSG>>}

\* scenes: which nodes exist and which shading engines the materials are connected to
Scenes ==
    {sc \in [exists : SUBSET Nodes, conn : [Materials -> UNION {ConnChoices(m) : m \in Materials}]] :
        /\ GroupObj \in sc.exists
        /\ \A m \in Materials :
              /\ sc.conn[m] \in ConnChoices(m)
              /\ m \notin sc.exists => sc.conn[m] = <<>>}

SceneNodes(sc) == sc.exists \cup UNION {Elems(sc.conn[m]) : m \in Materials} \cup {InitialSG}

\* the state the first show_gui() (line 200) leaves: an empty field and an empty list,
\* over a scene
Init ==
    /\ IsMeshWithin(mesh, MaxApplyFaces, MaxApplyEntries)
    /\ WellFormed(mesh)
    /\ Simple(mesh)
    /\ \E sc \in Scenes :
          /\ Nodes \subseteq sc.exists
          /\ exists = SceneNodes(sc)
          /\ conn = sc.conn
    /\ member = [f \in FacesOf(mesh) |-> InitialSG]
    /\ sel = <<>>
    /\ objectField = ""
    /\ materialList = <<>>
    /\ pc = "idle"
    /\ report = <<>>
    /\ face_count = 0
    /\ face_connections = <<>>
    /\ visited = {}
    /\ shells = <<>>
    /\ shell = <<>>
    /\ queue = <<>>
    /\ i = 0
    /\ result = <<>>

Next ==
    \/ show_gui
    \/ ChangeSelection
    \/ select_object_button
    \/ add_selected_materials
    \/ apply_materials_button

\* the whole program from start-up
Spec == Init /\ [][Next]_vars

\* The callbacks that can run from start-up. The object field stays empty there, so
\* apply_materials_button always leaves at line 121.
NextUI ==
    \/ show_gui
    \/ ChangeSelection
    \/ SelectNothing
    \/ SelectStore
    \/ add_selected_materials
    \/ ApplyRejectMissing

SpecUI == Init /\ [][NextUI]_vars

\* From start-up nothing sets the object field (select_object_button stops at line 110
\* before it reaches the textField edit): this holds under Spec, so that NextUI leaves
\* out no step Spec can take.
ObjectFieldStaysEmpty == objectField = "" /\ pc = "idle"

\* apply_materials_button on any content of the two widgets, over any scene
InitApply ==
    /\ IsMeshWithin(mesh, MaxApplyFaces, MaxApplyEntries)
    /\ WellFormed(mesh)
    /\ \E sc \in Scenes :
          /\ exists = SceneNodes(sc)
          /\ conn = sc.conn
    /\ member = [f \in FacesOf(mesh) |-> InitialSG]
    /\ sel = <<>>
    /\ objectField \in {"", MeshObj, GroupObj, "lambert2"}
    /\ materialList \in SeqsUpTo(Materials, MaxList)
    /\ pc = "idle"
    /\ report = <<>>
    /\ face_count = 0
    /\ face_connections = <<>>
    /\ visited = {}
    /\ shells = <<>>
    /\ shell = <<>>
    /\ queue = <<>>
    /\ i = 0
    /\ result = <<>>

SpecApply == InitApply /\ [][apply_materials_button]_vars

(***************************************************************************)
(* Properties of get_mesh_shells, checked under SpecDetect.                *)
(***************************************************************************)
\* get_mesh_shells has returned its result
Returned == pc = "got_shells"

\* number of places over all shells that hold face id x
TimesInShells(x) ==
    Cardinality({p \in (1 .. Len(shells)) \X (1 .. MaxFaces + 2) :
                    p[2] <= Len(shells[p[1]]) /\ shells[p[1]][p[2]] = x})

IdsInShells == UNION {{shells[k][j] : j \in 1 .. Len(shells[k])} : k \in 1 .. Len(shells)}

ShellOf(x) == CHOOSE k \in 1 .. Len(shells) : \E j \in 1 .. Len(shells[k]) : shells[k][j] = x

MinOf(S) == CHOOSE x \in S : \A y \in S : x <= y

ShellSet(k) == {shells[k][j] : j \in 1 .. Len(shells[k])}

\* an adjacency edge joins a and b: one is listed among the connected faces of the other
Adjacent(a, b) ==
    \/ a \in DOMAIN face_connections
         /\ \E k \in 1 .. Len(face_connections[a]) : face_connections[a][k] = b
    \/ b \in DOMAIN face_connections
         /\ \E k \in 1 .. Len(face_connections[b]) : face_connections[b][k] = a

RECURSIVE ReachFrom(_)
\* closure of the set S of ids under adjacency edges
ReachFrom(S) ==
    LET more == S \cup {b \in FaceIds : \E a \in S : Adjacent(a, b)}
    IN IF more = S THEN S ELSE ReachFrom(more)

PathBetween(a, b) == b \in ReachFrom({a})

\* every listed id is a face id, and b is listed for a exactly when a is listed for b
SymmetricMap ==
    \A a \in DOMAIN face_connections : \A k \in 1 .. Len(face_connections[a]) :
        LET b == face_connections[a][k]
        IN /\ b \in DOMAIN face_connections
           /\ \E l \in 1 .. Len(face_connections[b]) : face_connections[b][l] = a

\* some listed id is outside [0, face_count)
Malformed ==
    \E f \in 1 .. Len(mesh) : \E k \in 1 .. Len(mesh[f]) : mesh[f][k] \notin 0 .. Len(mesh) - 1

\* C1: when get_mesh_shells has returned, every face id of 0..face_count-1 occurs
\* exactly once over all shells and no other id occurs in a shell.
C1_Partition ==
    Returned =>
        /\ \A f \in 0 .. face_count - 1 : TimesInShells(f) = 1
        /\ IdsInShells \subseteq 0 .. face_count - 1

\* C2: when get_mesh_shells has returned, two faces are in the same shell if and
\* only if a path of adjacency edges connects them, whatever the adjacency map.
C2_ConnectivityAnyMap ==
    Returned =>
        \A a, b \in 0 .. face_count - 1 : (ShellOf(a) = ShellOf(b)) <=> PathBetween(a, b)

\* C2 (amended): for a symmetric adjacency map, two faces are in the same shell if
\* and only if a path of adjacency edges connects them.
C2_ConnectivitySymmetric ==
    (Returned /\ SymmetricMap) =>
        \A a, b \in 0 .. face_count - 1 : (ShellOf(a) = ShellOf(b)) <=> PathBetween(a, b)

\* witness of C2: a symmetric map over three faces, two of them joined only through
\* the third, and a fourth shell-mate relation that does not hold
C2_Witness ==
    /\ Returned
    /\ SymmetricMap
    /\ face_count = 3
    /\ \E a, b \in 0 .. 2 : a # b /\ ~Adjacent(a, b) /\ ShellOf(a) = ShellOf(b)

\* C3: when get_mesh_shells has returned, each shell starts with its smallest id and
\* the smallest ids of the shells ascend strictly along the returned sequence.
C3_ShellOrder ==
    Returned =>
        /\ \A k \in 1 .. Len(shells) : shells[k][1] = MinOf(ShellSet(k))
        /\ \A k, l \in 1 .. Len(shells) : k < l => MinOf(ShellSet(k)) < MinOf(ShellSet(l))

\* C4: a host topology that lists an id outside [0, face_count) never makes
\* get_mesh_shells return a shell sequence.
C4_MalformedRejected == Malformed => ~Returned

\* C8: every detection call reaches its end with all start faces processed.
C8_Terminates == <>(Returned /\ i = face_count /\ queue = <<>>)

\* witness of C8: the call has ended on a mesh whose face 0 lists the same other face
\* twice, so that this face was in the queue twice
C8_Witness ==
    /\ Returned
    /\ face_count >= 2
    /\ Len(face_connections[0]) >= 2
    /\ face_connections[0][1] = face_connections[0][2]
    /\ face_connections[0][1] \in 1 .. face_count - 1

(***************************************************************************)
(* Properties of apply_materials_button and of                             *)
(* assign_random_materials_from_list, checked under SpecApply.             *)
(***************************************************************************)
\* no material of the list is a node of the scene
NoneResolves == \A k \in 1 .. Len(materialList) : materialList[k] \notin exists

EmptyListError == Msg("error", "Material list is empty.", "")

NoGroupsError == Msg("error", "No available shading groups for assignment.", "")

MissingWarning == Msg("warning", "Object not selected or does not exist.", "")

NotPolyWarning == Msg("warning", "Selected object is not polygonal geometry.", "")

\* C5: a call of assign_random_materials_from_list with an empty material list, or
\* with a list none of whose materials is in the scene, ends in a reported error and
\* leaves the nodes, the shading-engine connections and every face's shading group
\* as they were.
C5_FailureLeavesScene ==
    [][(assign_random_materials_from_list /\ (materialList = <<>> \/ NoneResolves)) =>
          /\ pc' = "idle"
          /\ Last(report') \in {EmptyListError, NoGroupsError}
          /\ exists' = exists
          /\ conn' = conn
          /\ member' = member]_vars

\* witness of C5: the call has failed on a list that is not empty, after warning about
\* a material that is not in the scene
C5_Witness ==
    /\ pc = "idle"
    /\ materialList # <<>>
    /\ Len(report) >= 3
    /\ Last(report) = NoGroupsError
    /\ report[Len(report) - 1][1] = "warning"

\* the field is empty, names no node, or names a node other than the one transform
\* with a mesh shape
InvalidSelection == objectField = "" \/ objectField \notin exists \/ objectField # MeshObj

\* C6: a run of apply_materials_button on an invalid object field reports a warning
\* and ends at once: get_mesh_shells is not entered (its locals are untouched, no
\* timing line is printed) and the scene is as it was.
C6_InvalidRejected ==
    [][(apply_materials_button /\ pc = "idle" /\ InvalidSelection) =>
          /\ pc' = "idle"
          /\ report' \in {<<MissingWarning>>, <<NotPolyWarning>>}
          /\ UNCHANGED <<scene, ui, locals>>]_vars

\* witness of C6: the field names an existing transform without a mesh shape and the
\* callback has warned
C6_Witness ==
    /\ pc = "idle"
    /\ objectField = GroupObj
    /\ report = <<NotPolyWarning>>
    /\ result = <<>>

\* assign_random_materials_from_list has run to its end
Completed ==
    /\ pc = "idle"
    /\ report # <<>>
    /\ Last(report) = Msg("print", "assign_random_materials_from_list - sec", "")

\* C7: when assign_random_materials_from_list has completed, all faces of each shell
\* are members of one shading group, the first one connected to a material of the
\* list that is in the scene.
C7_ShellsShareGroup ==
    Completed =>
        \A k \in 1 .. Len(result) :
            \E m \in Elems(materialList) \cap exists :
                /\ conn[m] # <<>>
                /\ \A j \in 1 .. Len(result[k]) : member[result[k][j]] = conn[m][1]

\* witness of C7: two shells have been given different shading groups
C7_Witness ==
    /\ Completed
    /\ Len(result) = 2
    /\ member[result[1][1]] # member[result[2][1]]

(***************************************************************************)
(* Properties of select_object_button and add_selected_materials, checked  *)
(* under SpecUI.                                                           *)
(***************************************************************************)
\* C9: a run of select_object_button with a selection that is not empty completes
\* with the object field holding the first selected object; with an empty selection
\* it warns and leaves the object field unchanged.
C9_SelectStores ==
    [][select_object_button =>
          IF sel # <<>>
          THEN objectField' = sel[1] /\ \A k \in 1 .. Len(report') : report'[k][1] # "error"
          ELSE objectField' = objectField
                 /\ report' = <<Msg("warning", "Nothing selected.", "")>>]_vars

IsPrefix(a, b) == Len(a) <= Len(b) /\ SubSeq(b, 1, Len(a)) = a

NoDuplicates(sq) == \A k, l \in 1 .. Len(sq) : k # l => sq[k] # sq[l]

\* C10: no material name is twice in the material list, and a run of
\* add_selected_materials keeps the entries the list had, in their order.
C10_NoDuplicates ==
    /\ [](NoDuplicates(materialList))
    /\ [][add_selected_materials => IsPrefix(materialList, materialList')]_vars

====
